---- MODULE Spec2Model ----
(***************************************************************************)
(* Model of app.py (Docs to TXT Converter): the upload script with its     *)
(* validation gate, convert_file_to_text, format_file_size, get_converter  *)
(* and create_download_link.                                               *)
(*                                                                         *)
(* Strings are sequences of tokens: "" is <<>>, f-string concatenation is  *)
(* \o.  File names are sequences of one-character strings.  The external   *)
(* engine, the file system and the clock are the environment: their        *)
(* outcomes are chosen with \E.  Exceptions are instances of Exception     *)
(* (what `except Exception` and the bare `except` catch).                  *)
(***************************************************************************)
EXTENDS Integers, Sequences, FiniteSets, TLC

\* ------------------------------------------------------------------ bounds
\* number of upload interactions (script reruns) in one process
MaxCalls == 2
\* number of seconds the clock may advance
MaxTicks == 2

\* --------------------------------------------------------- input universes
\* src/app.py:165
MAX_FILE_SIZE == 200 * 1024 * 1024

\* len(file_content) of the uploads tried (10 * size must fit TLC's integers)
Sizes == {0, 1536, 1048524, 1048575, MAX_FILE_SIZE, MAX_FILE_SIZE + 1}

\* uploaded_file.name of the uploads tried
Filenames ==
  { <<"r", ".", "p", "d", "f">>,
    <<"r", ".", "P", "D", "F">>,
    <<"r", ".", "e", "x", "e">>,
    <<"r">>,
    <<".", "p", "d", "f">>,
    <<"r", ".", "x", ".", "p", "n", "g">> }

\* text the engine may extract (the empty document included)
Texts == { <<>>, <<"h", "i">> }

\* str(exception) of the exceptions the environment may raise
Msgs == { <<>>, <<"boom">> }

\* what md_converter.convert() may do: raise, return an object that has
\* text_content, or return a value without it
ConvOutcomes ==
  [kind : {"raise"}, payload : Msgs] \cup
  [kind : {"text_content", "other"}, payload : Texts]

\* what MarkItDown() may do when get_converter has nothing cached
CtorOutcomes == {"ok", "raise"}

\* what staging may do: both steps succeed, NamedTemporaryFile raises,
\* or temp_file.write raises after the file was created
StageOutcomes == {"ok", "create_fail", "write_fail"}

\* the clock reading when the process starts: 03:04:59 on 2024-01-02
ClockStart == 3 * 3600 + 4 * 60 + 59

\* ------------------------------------------------------------ str helpers
\* str.lower() on the characters that occur in Filenames
LowerChar(c) ==
  CASE c = "P" -> "p"
    [] c = "D" -> "d"
    [] c = "F" -> "f"
    [] OTHER -> c

Lower(s) == [i \in 1..Len(s) |-> LowerChar(s[i])]

\* str.rfind("."), 1-based, 0 when absent
RFindDot(s) ==
  LET I == {i \in 1..Len(s) : s[i] = "."}
  IN IF I = {} THEN 0 ELSE CHOOSE i \in I : \A j \in I : j <= i

\* pathlib.PurePath.suffix: the last dot counts only when it is neither the
\* first nor the last character of the name
Suffix(name) ==
  LET i == RFindDot(name)
  IN IF 1 < i /\ i < Len(name) THEN SubSeq(name, i, Len(name)) ELSE <<>>

\* pathlib.PurePath.stem
Stem(name) ==
  LET i == RFindDot(name)
  IN IF 1 < i /\ i < Len(name) THEN SubSeq(name, 1, i - 1) ELSE name

\* ------------------------------------------------------- format_file_size
units == <<"B", "KB", "MB", "GB">>

\* round n/d to the nearest integer, ties to even (what "%.1f" does with
\* the exactly representable quotients size_bytes / 1024^k)
RoundHalfEven(n, d) ==
  LET q == n \div d
      r == n % d
  IN IF 2 * r < d THEN q
     ELSE IF 2 * r > d THEN q + 1
     ELSE IF q % 2 = 0 THEN q ELSE q + 1

\* f"{size_bytes:.1f} {unit}" where size_bytes is num/den
FormatOneDecimal(num, den, unit) ==
  LET tenths == RoundHalfEven(10 * num, den)
  IN [whole |-> tenths \div 10, frac |-> tenths % 10, unit |-> unit]

RECURSIVE format_loop(_, _, _)
format_loop(num, den, i) ==
  IF i > Len(units) THEN FormatOneDecimal(num, den, "TB")
  ELSE IF num \div den < 1024 THEN FormatOneDecimal(num, den, units[i])
  ELSE format_loop(num, den * 1024, i + 1)

format_file_size(size_bytes) == format_loop(size_bytes, 1, 1)

\* --------------------------------------------------------- validation gate
allowed_extensions ==
  { <<".", "p", "d", "f">>, <<".", "d", "o", "c", "x">>,
    <<".", "p", "p", "t", "x">>, <<".", "x", "l", "s", "x">>,
    <<".", "j", "p", "g">>, <<".", "j", "p", "e", "g">>,
    <<".", "p", "n", "g">>, <<".", "m", "p", "3">> }

\* a gate that forgets the file-type check
ValidationGateNoTypeCheck(file_size, name) ==
  IF file_size > MAX_FILE_SIZE THEN "too_large" ELSE "accepted"

\* the two checks of the script, in order; each rejection ends in st.stop()
ValidationGate(file_size, name) ==
  IF file_size > MAX_FILE_SIZE THEN "too_large"
  ELSE IF Lower(Suffix(name)) \notin allowed_extensions THEN "unsupported"
  ELSE "accepted"

\* ------------------------------------------------------------ get_converter
\* cache = 0: nothing cached; otherwise the cached instance.  Returns the
\* instance handed out (0: MarkItDown() raised), the cache afterwards and
\* the number of instances constructed.
get_converter_uncached(cache, ctor, built) ==
  IF ctor = "raise" THEN [inst |-> 0, cache |-> cache, built |-> built]
  ELSE [inst |-> built + 1, cache |-> built + 1, built |-> built + 1]

get_converter(cache, ctor, built) ==
  IF cache # 0 THEN [inst |-> cache, cache |-> cache, built |-> built]
  ELSE IF ctor = "raise" THEN [inst |-> 0, cache |-> 0, built |-> built]
  ELSE [inst |-> built + 1, cache |-> built + 1, built |-> built + 1]

\* ----------------------------------------------------- convert_file_to_text
\* mimetypes.guess_type(filename)[0] or 'unknown'
MimeType(ext) ==
  CASE ext = <<".", "p", "d", "f">> -> "application/pdf"
    [] ext = <<".", "p", "n", "g">> -> "image/png"
    [] OTHER -> "unknown"

EmptyInfo ==
  [filename |-> <<>>, size_bytes |-> 0,
   size_readable |-> [whole |-> 0, frac |-> 0, unit |-> ""],
   extension |-> <<>>, mime_type |-> ""]

\* result as initialised at the top of the function
InitResult ==
  [success |-> FALSE, text |-> <<>>, file_info |-> EmptyInfo, error |-> <<>>]

FileInfo(file_size, filename) ==
  [filename |-> filename,
   size_bytes |-> file_size,
   size_readable |-> format_file_size(file_size),
   extension |-> Lower(Suffix(filename)),
   mime_type |-> MimeType(Lower(Suffix(filename)))]

\* the hasattr(conversion_result, 'text_content') branch
ExtractText(conv) == conv.payload

\* the outer handler: except Exception as e
outer_except_wrong_prefix(res, msg) ==
  [res EXCEPT !.error = <<"Conversion error: ">> \o msg]

outer_except(res, msg) ==
  [res EXCEPT !.error = <<"File processing error: ">> \o msg]

\* the inner handler: except Exception as convert_error
inner_except(res, msg) ==
  [res EXCEPT !.error = <<"Conversion error: ">> \o msg]

\* an inner try that marks success before the engine has answered
inner_try_early_success(res, inst, conv) ==
  IF inst = 0 THEN inner_except([res EXCEPT !.success = TRUE], <<"init">>)
  ELSE IF conv.kind = "raise"
       THEN inner_except([res EXCEPT !.success = TRUE], conv.payload)
  ELSE [res EXCEPT !.text = ExtractText(conv), !.success = TRUE]

\* an inner try that reports an empty extraction as a failure without a
\* message
inner_try_empty_is_failure(res, inst, conv) ==
  IF inst = 0 THEN inner_except(res, <<"init">>)
  ELSE IF conv.kind = "raise" THEN inner_except(res, conv.payload)
  ELSE IF ExtractText(conv) = <<>> THEN res
  ELSE [res EXCEPT !.text = ExtractText(conv), !.success = TRUE]

\* the inner try block with its except clause: inst = 0 means get_converter
\* raised (the engine is then not invoked)
inner_try(res, inst, conv) ==
  IF inst = 0 THEN inner_except(res, <<"init">>)
  ELSE IF conv.kind = "raise" THEN inner_except(res, conv.payload)
  ELSE [res EXCEPT !.text = ExtractText(conv), !.success = TRUE]

\* a cleanup whose unlink failure is not swallowed and reaches the outer
\* handler
finally_cleanup_propagates(res, unlink_ok) ==
  IF unlink_ok THEN res ELSE outer_except(res, <<"unlink">>)

\* the finally block: try: os.unlink(temp_file_path) except: pass
finally_cleanup(res, unlink_ok) == res

\* ---------------------------------------------------- create_download_link
Hour(c) == (c \div 3600) % 24
Minute(c) == (c \div 60) % 60
Second(c) == c % 60

\* datetime.strftime("%Y%m%d_%H%M%S")
StrftimeCompact(c) == <<2024, 1, 2, "_", Hour(c), Minute(c), Second(c)>>

\* datetime.strftime("%Y-%m-%d %H:%M:%S")
StrftimeLong(c) ==
  <<2024, "-", 1, "-", 2, " ", Hour(c), ":", Minute(c), ":", Second(c)>>

NoDownload ==
  [download_filename |-> <<>>, header |-> <<>>, body |-> <<>>]

\* ------------------------------------------------------------------ state
VARIABLES
  pc,             \* position of the script
  calls,          \* upload interactions so far
  uploaded_file,  \* [name, size] of the current upload
  gate,           \* outcome of the validation gate for the current upload
  result,         \* the dict convert_file_to_text builds and returns
  temp_file_path, \* path of the staged file (0: not assigned)
  tempFiles,      \* temporary files that exist on disk
  created,        \* temporary files created so far
  converter,      \* st.cache_resource entry of get_converter (0: empty)
  built,          \* MarkItDown instances constructed so far
  md_converter,   \* instance used by the current call (0: none)
  getCalls,       \* calls of get_converter so far
  engineCalls,    \* calls of md_converter.convert so far
  stageOutcome,   \* what staging did in the current call
  convOutcome,    \* what the engine did in the current call
  unlinkOutcome,  \* what os.unlink did in the current call
  clock,          \* the wall clock, in seconds of the day
  timestamp,      \* first clock reading of create_download_link
  download        \* what create_download_link returned

vars ==
  <<pc, calls, uploaded_file, gate, result, temp_file_path, tempFiles,
    created, converter, built, md_converter, getCalls, engineCalls,
    stageOutcome, convOutcome, unlinkOutcome, clock, timestamp, download>>

NoConv == [kind |-> "none", payload |-> <<>>]

Init ==
  /\ pc = "idle"
  /\ calls = 0
  /\ uploaded_file = [name |-> <<>>, size |-> 0]
  /\ gate = "none"
  /\ result = InitResult
  /\ temp_file_path = 0
  /\ tempFiles = {}
  /\ created = 0
  /\ converter = 0
  /\ built = 0
  /\ md_converter = 0
  /\ getCalls = 0
  /\ engineCalls = 0
  /\ stageOutcome = "none"
  /\ convOutcome = NoConv
  /\ unlinkOutcome = "none"
  /\ clock = ClockStart
  /\ timestamp = <<>>
  /\ download = NoDownload

\* ---------------------------------------------------------------- actions
\* the user uploads a file: the script reruns with uploaded_file set
Upload ==
  /\ pc \in {"idle", "stopped", "done"}
  /\ calls < MaxCalls
  /\ \E name \in Filenames, size \in Sizes :
       uploaded_file' = [name |-> name, size |-> size]
  /\ calls' = calls + 1
  /\ pc' = "gate"
  /\ gate' = "none"
  /\ result' = InitResult
  /\ temp_file_path' = 0
  /\ md_converter' = 0
  /\ stageOutcome' = "none"
  /\ convOutcome' = NoConv
  /\ unlinkOutcome' = "none"
  /\ timestamp' = <<>>
  /\ download' = NoDownload
  /\ UNCHANGED <<tempFiles, created, converter, built, getCalls,
                 engineCalls, clock>>

\* the size check and the file-type check of the script
Gate ==
  /\ pc = "gate"
  /\ gate' = ValidationGate(uploaded_file.size, uploaded_file.name)
  /\ pc' = IF gate' = "accepted" THEN "convert_file_to_text" ELSE "stopped"
  /\ UNCHANGED <<calls, uploaded_file, result, temp_file_path, tempFiles,
                 created, converter, built, md_converter, getCalls,
                 engineCalls, stageOutcome, convOutcome, unlinkOutcome,
                 clock, timestamp, download>>

\* convert_file_to_text up to the end of the with block: file info and
\* staging; a failure goes to the outer handler and the function returns
Stage ==
  /\ pc = "convert_file_to_text"
  /\ \E o \in StageOutcomes, msg \in Msgs :
       LET r0 == [InitResult EXCEPT
                    !.file_info = FileInfo(uploaded_file.size,
                                           uploaded_file.name)]
           path == created + 1
       IN /\ stageOutcome' = o
          /\ IF o = "ok"
             THEN /\ tempFiles' = tempFiles \cup {path}
                  /\ created' = created + 1
                  /\ temp_file_path' = path
                  /\ result' = r0
                  /\ pc' = "inner_try"
             ELSE IF o = "write_fail"
             THEN /\ tempFiles' = tempFiles \cup {path}
                  /\ created' = created + 1
                  /\ temp_file_path' = 0
                  /\ result' = outer_except(r0, msg)
                  /\ pc' = "returned"
             ELSE /\ tempFiles' = tempFiles
                  /\ created' = created
                  /\ temp_file_path' = 0
                  /\ result' = outer_except(r0, msg)
                  /\ pc' = "returned"
  /\ UNCHANGED <<calls, uploaded_file, gate, converter, built, md_converter,
                 getCalls, engineCalls, convOutcome, unlinkOutcome, clock,
                 timestamp, download>>

\* the inner try and its except clause: get_converter, convert, extraction
Convert ==
  /\ pc = "inner_try"
  /\ \E ctor \in CtorOutcomes, conv \in ConvOutcomes :
       LET g == get_converter(converter, ctor, built)
       IN /\ converter' = g.cache
          /\ built' = g.built
          /\ md_converter' = g.inst
          /\ getCalls' = getCalls + 1
          /\ engineCalls' = IF g.inst = 0 THEN engineCalls
                            ELSE engineCalls + 1
          /\ convOutcome' = IF g.inst = 0
                            THEN [kind |-> "init_raise", payload |-> <<>>]
                            ELSE conv
          /\ result' = inner_try(result, g.inst, conv)
  /\ pc' = "finally"
  /\ UNCHANGED <<calls, uploaded_file, gate, temp_file_path, tempFiles,
                 created, stageOutcome, unlinkOutcome, clock, timestamp,
                 download>>

\* a cleanup placed at the end of the try body instead of a finally block:
\* it is skipped when the inner try raised
CleanupOnlyOnSuccess ==
  /\ pc = "finally"
  /\ \E ok \in BOOLEAN :
       LET ran == convOutcome.kind \in {"text_content", "other"}
       IN /\ unlinkOutcome' = IF ~ran THEN "none"
                               ELSE IF ok THEN "ok" ELSE "fail"
          /\ tempFiles' = IF ran /\ ok THEN tempFiles \ {temp_file_path}
                          ELSE tempFiles
          /\ result' = finally_cleanup(result, ok)
  /\ pc' = "returned"
  /\ UNCHANGED <<calls, uploaded_file, gate, temp_file_path, created,
                 converter, built, md_converter, getCalls, engineCalls,
                 stageOutcome, convOutcome, clock, timestamp, download>>

\* the finally block, then return result
Cleanup ==
  /\ pc = "finally"
  /\ \E ok \in BOOLEAN :
       /\ unlinkOutcome' = IF ok THEN "ok" ELSE "fail"
       /\ tempFiles' = IF ok THEN tempFiles \ {temp_file_path} ELSE tempFiles
       /\ result' = finally_cleanup(result, ok)
  /\ pc' = "returned"
  /\ UNCHANGED <<calls, uploaded_file, gate, temp_file_path, created,
                 converter, built, md_converter, getCalls, engineCalls,
                 stageOutcome, convOutcome, clock, timestamp, download>>

\* if result['success']: ... else: the error banner
Render ==
  /\ pc = "returned"
  /\ pc' = IF result.success THEN "create_download_link" ELSE "done"
  /\ UNCHANGED <<calls, uploaded_file, gate, result, temp_file_path,
                 tempFiles, created, converter, built, md_converter,
                 getCalls, engineCalls, stageOutcome, convOutcome,
                 unlinkOutcome, clock, timestamp, download>>

\* create_download_link: the stem and the first datetime.now()
DownloadFilename ==
  /\ pc = "create_download_link"
  /\ timestamp' = StrftimeCompact(clock)
  /\ pc' = "file_header"
  /\ UNCHANGED <<calls, uploaded_file, gate, result, temp_file_path,
                 tempFiles, created, converter, built, md_converter,
                 getCalls, engineCalls, stageOutcome, convOutcome,
                 unlinkOutcome, clock, download>>

\* create_download_link: the header with the second datetime.now(), the
\* concatenation and the return
DownloadHeader ==
  /\ pc = "file_header"
  /\ download' =
       [download_filename |->
          Stem(uploaded_file.name) \o <<"_converted_">> \o timestamp
            \o <<".txt">>,
        header |->
          <<"# Original File: ", uploaded_file.name,
            "# Conversion Date: ", StrftimeLong(clock),
            "# Converted Characters: ", Len(result.text),
            "# Converter: MarkItDown (Microsoft)">>,
        body |-> result.text]
  /\ pc' = "done"
  /\ UNCHANGED <<calls, uploaded_file, gate, result, temp_file_path,
                 tempFiles, created, converter, built, md_converter,
                 getCalls, engineCalls, stageOutcome, convOutcome,
                 unlinkOutcome, clock, timestamp>>

\* the wall clock advances by one second
Tick ==
  /\ clock < ClockStart + MaxTicks
  /\ clock' = clock + 1
  /\ UNCHANGED <<pc, calls, uploaded_file, gate, result, temp_file_path,
                 tempFiles, created, converter, built, md_converter,
                 getCalls, engineCalls, stageOutcome, convOutcome,
                 unlinkOutcome, timestamp, download>>

Next ==
  \/ Upload
  \/ Gate
  \/ Stage
  \/ Convert
  \/ Cleanup
  \/ Render
  \/ DownloadFilename
  \/ DownloadHeader
  \/ Tick

Spec == Init /\ [][Next]_vars

TypeOK ==
  /\ pc \in {"idle", "gate", "stopped", "convert_file_to_text", "inner_try",
             "finally", "returned", "create_download_link", "file_header",
             "done"}
  /\ calls \in 0..MaxCalls
  /\ tempFiles \subseteq 1..created
  /\ converter \in 0..built

\* ------------------------------------------------------------- properties
StartsWith(s, prefix) == Len(s) >= 1 /\ s[1] = prefix

ConversionPrefix == "Conversion error: "
ProcessingPrefix == "File processing error: "

\* the current call staged a file and the converter, or acquiring it, raised
ConverterRaised ==
  stageOutcome = "ok" /\ convOutcome.kind \in {"raise", "init_raise"}

\* the current call created a temporary file (its path is `created`)
TempCreated == stageOutcome \in {"ok", "write_fail"}

\* C1: every result convert_file_to_text returns has success => error = ""
\* and ~success => text = "", and never both text and error non-empty.
C1_ResultExclusive ==
  pc = "returned" =>
    /\ result.success => result.error = <<>>
    /\ ~result.success => result.text = <<>>
    /\ ~(result.text # <<>> /\ result.error # <<>>)

\* a call returned after the converter raised, with its error recorded
C1_Witness ==
  /\ pc = "returned"
  /\ convOutcome.kind = "raise"
  /\ result.error # <<>>

\* C2 as stated: success iff error = "" and failure iff text = "", so a
\* successful conversion always carries non-empty text.
C2_Original ==
  pc = "returned" =>
    /\ result.success <=> result.error = <<>>
    /\ ~result.success <=> result.text = <<>>

\* C2 amended: success iff error = ""; failure implies text = "" and a
\* non-empty error; a success carries exactly the text the converter
\* returned, which may be empty.
C2_Amended ==
  pc = "returned" =>
    /\ result.success <=> result.error = <<>>
    /\ ~result.success => result.text = <<>> /\ result.error # <<>>
    /\ result.success => result.text = convOutcome.payload

\* a successful conversion of a document the converter found empty
C2_Witness ==
  /\ pc = "returned"
  /\ convOutcome.kind \in {"text_content", "other"}
  /\ convOutcome.payload = <<>>
  /\ result.success
  /\ result.text = <<>>

\* C3 as stated: whenever a temporary file was created and deletion did
\* not fail, no staged file of the call exists when the call returns.
C3_StagedFileRemoved ==
  (pc = "returned" /\ TempCreated /\ unlinkOutcome # "fail")
    => created \notin tempFiles

\* C4 as stated: when staging succeeded and the converter raises, the
\* staged file is unlinked and no temporary file of this or any earlier
\* call remains.
C4_Original ==
  (pc = "returned" /\ ConverterRaised)
    => /\ unlinkOutcome = "ok"
       /\ tempFiles = {}

\* C4 amended: when staging succeeded and the converter raises, the unlink
\* of the staged file is still attempted before the call returns, and
\* unless that unlink fails the file staged by this call is gone.
C4_Amended ==
  (pc = "returned" /\ ConverterRaised)
    => /\ unlinkOutcome \in {"ok", "fail"}
       /\ unlinkOutcome = "ok" => temp_file_path \notin tempFiles

\* the converter raised, the staged file was unlinked, and a file of an
\* earlier call is still on disk
C4_Witness ==
  /\ pc = "returned"
  /\ ConverterRaised
  /\ unlinkOutcome = "ok"
  /\ temp_file_path \notin tempFiles
  /\ tempFiles # {}

\* C5: a converter failure gives success = false with "Conversion error: ";
\* a staging failure gives success = false with "File processing error: "
\* and the converter is not invoked in that call; every failure has exactly
\* one of the two prefixes.
C5_ErrorClasses ==
  pc = "returned" =>
    /\ convOutcome.kind \in {"raise", "init_raise"} =>
         ~result.success /\ StartsWith(result.error, ConversionPrefix)
    /\ stageOutcome \in {"create_fail", "write_fail"} =>
         /\ ~result.success
         /\ StartsWith(result.error, ProcessingPrefix)
         /\ convOutcome = NoConv
         /\ md_converter = 0
    /\ ~result.success =>
         (StartsWith(result.error, ConversionPrefix)
            # StartsWith(result.error, ProcessingPrefix))

\* a call returned after the write into the temporary file failed
C5_Witness ==
  /\ pc = "returned"
  /\ stageOutcome = "write_fail"
  /\ StartsWith(result.error, ProcessingPrefix)

\* an upload the gate must reject: larger than MAX_FILE_SIZE, or with a
\* lowercased extension outside the allow-list
MustReject(u) ==
  \/ u.size > 200 * 1024 * 1024
  \/ Lower(Suffix(u.name)) \notin allowed_extensions

\* C6: while the current upload is one the gate must reject, no temporary
\* file is created, get_converter is not called and the engine is not
\* invoked; convert_file_to_text is never entered for it.
C6_GateBeforeConversion ==
  [][ /\ MustReject(uploaded_file) =>
           /\ tempFiles' = tempFiles
           /\ created' = created
           /\ getCalls' = getCalls
           /\ engineCalls' = engineCalls
           /\ converter' = converter
      /\ MustReject(uploaded_file') =>
           pc' \in {"idle", "gate", "stopped"}
      /\ engineCalls' # engineCalls =>
           ~MustReject(uploaded_file) /\ gate = "accepted"
    ]_vars

\* an .exe upload was stopped at the gate after an earlier upload had been
\* converted
C6_Witness ==
  /\ pc = "stopped"
  /\ gate = "unsupported"
  /\ Suffix(uploaded_file.name) = <<".", "e", "x", "e">>
  /\ engineCalls = 1

\* C7 as stated: format_file_size ends in one of B, KB, MB, GB, TB and the
\* printed magnitude is in [0, 1024) (every size of the model is below
\* 1024^4).
C7_MagnitudeBelow1024 ==
  result.file_info # EmptyInfo =>
    /\ result.file_info.size_readable.unit \in {"B", "KB", "MB", "GB", "TB"}
    /\ result.file_info.size_readable.whole >= 0
    /\ result.file_info.size_readable.whole < 1024

\* C8: at most one converter instance is ever constructed, only inside a
\* conversion that passed the gate and staging, every conversion uses the
\* cached instance, and the cached instance is never reset or replaced.
C8_SingleConverter ==
  [][ /\ built' <= 1
      /\ converter # 0 => converter' = converter
      /\ built' # built =>
           gate = "accepted" /\ stageOutcome = "ok" /\ converter = 0
      /\ md_converter' # 0 => md_converter' = converter'
    ]_vars

\* a second conversion ran on the instance the first one constructed
C8_Witness ==
  /\ engineCalls = 2
  /\ built = 1
  /\ md_converter = converter

\* C9: when the unlink fails the call still returns, with the success, text
\* and error the converter's outcome determined.
C9_CleanupFailureSwallowed ==
  (pc = "returned" /\ unlinkOutcome = "fail") =>
    /\ convOutcome.kind \in {"text_content", "other"} =>
         /\ result.success
         /\ result.text = convOutcome.payload
         /\ result.error = <<>>
    /\ convOutcome.kind = "raise" =>
         /\ ~result.success
         /\ result.text = <<>>
         /\ result.error = <<ConversionPrefix>> \o convOutcome.payload
    /\ convOutcome.kind = "init_raise" =>
         /\ ~result.success
         /\ result.text = <<>>
         /\ StartsWith(result.error, ConversionPrefix)

\* a successful conversion returned although its unlink failed
C9_Witness ==
  /\ pc = "returned"
  /\ unlinkOutcome = "fail"
  /\ result.success
  /\ temp_file_path \in tempFiles

\* the date fields of a "%Y%m%d_%H%M%S" timestamp
ParseCompact(ts) == <<ts[1], ts[2], ts[3], ts[5], ts[6], ts[7]>>

\* the date fields of a "%Y-%m-%d %H:%M:%S" timestamp
ParseLong(ts) == <<ts[1], ts[3], ts[5], ts[7], ts[9], ts[11]>>

\* the timestamp inside <stem>_converted_<timestamp>.txt
FilenameTimestamp(fn) == SubSeq(fn, Len(fn) - 7, Len(fn) - 1)

\* C10 as stated: within one call of create_download_link the timestamp of
\* the derived filename and the Conversion Date of the header denote the
\* same instant.
C10_OneClockReading ==
  (pc = "done" /\ download # NoDownload) =>
    ParseCompact(FilenameTimestamp(download.download_filename))
      = ParseLong(download.header[4])
====
